---- MODULE Spec2Model ----
(***************************************************************************)
(* MysticCore: the StatusCode model (status/status_code.hpp) and the       *)
(* fixed-width Float32 wrapper (types/internal/floats/float32.hpp).        *)
(*                                                                         *)
(* A behaviour is one caller: it starts from a value (a StatusCode, a      *)
(* string, or a Float32 wrapper) and applies the library's functions to    *)
(* it.  A string is a TLA+ string; a StatusCode is its uint32 ordinal.     *)
(* Under SpecThreads the value is shared instead: several threads call the *)
(* library's functions on it at the same time.                             *)
(***************************************************************************)
EXTENDS Integers, Sequences, FiniteSets

VARIABLES
    predefined, \* the predefined symbols of the build (DEBUG, NDEBUG, ...)
    input,      \* the value the caller started from
    cur,        \* the value the caller holds now
    operand,    \* the other operand of the caller's Float32: type, value, side
    calls,      \* the names of the functions applied so far, oldest first
    call,       \* the last call on the Float32 (operator, Value, conversion), its result
    trap,       \* "none", or what ended the program
    threads     \* the concurrent callers: the call each makes and how far it is

vars == <<predefined, input, operand, cur, calls, call, trap, threads>>

-----------------------------------------------------------------------------
(* Bounds of the exploration.                                              *)

\* StatusCode values a caller can hold: the ordinals 0..MaxOrdinal, the ones
\* above 0x000F being the product of an unsafe cast.
MaxOrdinal == 24
\* A behaviour applies at most MaxCalls functions in a row.
MaxCalls == 3
\* Case variants lower-case any subset of the first MaskWidth characters (and
\* also all of them).
MaskWidth == 3
\* Arbitrary strings over GarbageAlphabet have at most MaxGarbageLen characters.
MaxGarbageLen == 2
\* A behaviour makes at most MaxFloatCalls calls on its Float32 (operators,
\* Value(), conversions).
MaxFloatCalls == 1
\* Numbers come from -1..MaxSmall and from 2^24 - 1 .. 2^24 + MaxOffset, the
\* integers around the first one a float cannot hold.
MaxSmall == 4
MaxOffset == 1
\* The threads that call concurrently under SpecThreads.
NumThreads == 2
\* A behaviour makes at most MaxByteCalls calls with its byte.
MaxByteCalls == 2
\* Shift amounts come from 0..MaxShift (and the width of unsigned int and the
\* amount below it).
MaxShift == 9
\* Integers handed to ConvertToByte come from -MaxExcess .. 255 + MaxExcess.
MaxExcess == 2

-----------------------------------------------------------------------------
(* mystic::string and string_utils::to_uppercase.                          *)

LowerLetters == "abcdefghijklmnopqrstuvwxyz"
UpperLetters == "ABCDEFGHIJKLMNOPQRSTUVWXYZ"

CharAt(s, i) == SubSeq(s, i, i)

\* The upper-case form of one character: a..z map to A..Z, anything else is
\* left as it is.
to_upper_char(c) ==
    IF \E i \in 1..Len(LowerLetters) : CharAt(LowerLetters, i) = c
    THEN LET i == CHOOSE j \in 1..Len(LowerLetters) : CharAt(LowerLetters, j) = c
         IN  CharAt(UpperLetters, i)
    ELSE c

to_lower_char(c) ==
    IF \E i \in 1..Len(UpperLetters) : CharAt(UpperLetters, i) = c
    THEN LET i == CHOOSE j \in 1..Len(UpperLetters) : CharAt(UpperLetters, j) = c
         IN  CharAt(LowerLetters, i)
    ELSE c

RECURSIVE to_uppercase(_)
to_uppercase(str) ==
    IF str = "" THEN ""
    ELSE to_upper_char(CharAt(str, 1)) \o to_uppercase(Tail(str))

\* s with every occurrence of the character a replaced by b.
RECURSIVE Replace(_, _, _)
Replace(s, a, b) ==
    IF s = "" THEN ""
    ELSE (IF CharAt(s, 1) = a THEN b ELSE CharAt(s, 1)) \o Replace(Tail(s), a, b)

\* The fatal primitive mystic::unreachable(): it does not return.
unreachable == [trap |-> "unreachable"]

-----------------------------------------------------------------------------
(* enum class StatusCode : uint32_t                                        *)

\* Mutant: two neighbouring enumerators with their ordinals exchanged.
StatusCode_renumbered ==
    [ OK |-> 0, CANCELLED |-> 1, INVALID_ARGUMENT |-> 2, NOT_FOUND |-> 3,
      ALREADY_EXISTS |-> 4, PERMISSION_DENIED |-> 5, UNAUTHENTICATED |-> 6,
      OUT_OF_RANGE |-> 7, DEADLINE_EXCEEDED |-> 8, RESOURCE_EXHAUSTED |-> 9,
      FAILED_PRECONDITION |-> 10, ABORT |-> 12, UNIMPLEMENTED |-> 11,
      INTERNAL |-> 13, UNAVAILABLE |-> 14, DATA_LOSS |-> 15 ]

StatusCode ==
    [ OK                  |-> 0,
      CANCELLED           |-> 1,
      INVALID_ARGUMENT    |-> 2,
      NOT_FOUND           |-> 3,
      ALREADY_EXISTS      |-> 4,
      PERMISSION_DENIED   |-> 5,
      UNAUTHENTICATED     |-> 6,
      OUT_OF_RANGE        |-> 7,
      DEADLINE_EXCEEDED   |-> 8,
      RESOURCE_EXHAUSTED  |-> 9,
      FAILED_PRECONDITION |-> 10,
      ABORT               |-> 11,
      UNIMPLEMENTED       |-> 12,
      INTERNAL            |-> 13,
      UNAVAILABLE         |-> 14,
      DATA_LOSS           |-> 15 ]

Enumerators == DOMAIN StatusCode

\* The values a StatusCode obtained without a cast can have.
DefinedCodes == { StatusCode[n] : n \in Enumerators }

Ret(v) == [trap |-> "none", value |-> v]

\* The positions of a table whose key (the first component) is k.
Hits(table, k) == { i \in 1..Len(table) : table[i][1] = k }

First(S) == CHOOSE i \in S : \A j \in S : i <= j

\* The case labels of the switch in to_string, each with the string it returns.
to_string_cases ==
    << << StatusCode.OK,                  "OK" >>,
       << StatusCode.CANCELLED,           "CANCELLED" >>,
       << StatusCode.INVALID_ARGUMENT,    "INVALID ARGUMENT" >>,
       << StatusCode.NOT_FOUND,           "NOT FOUND" >>,
       << StatusCode.ALREADY_EXISTS,      "ALREADY EXISTS" >>,
       << StatusCode.PERMISSION_DENIED,   "PERMISSION DENIED" >>,
       << StatusCode.UNAUTHENTICATED,     "UNAUTHENTICATED" >>,
       << StatusCode.OUT_OF_RANGE,        "OUT OF RANGE" >>,
       << StatusCode.DEADLINE_EXCEEDED,   "DEADLINE EXCEEDED" >>,
       << StatusCode.RESOURCE_EXHAUSTED,  "RESOURCE EXHAUSTED" >>,
       << StatusCode.FAILED_PRECONDITION, "FAILED PRECONDITION" >>,
       << StatusCode.ABORT,               "ABORT" >>,
       << StatusCode.UNIMPLEMENTED,       "UNIMPLEMENTED" >>,
       << StatusCode.INTERNAL,            "INTERNAL" >>,
       << StatusCode.UNAVAILABLE,         "UNAVAILABLE" >>,
       << StatusCode.DATA_LOSS,           "DATA LOSS" >> >>

\* Mutant: the enumerator's own spelling, underscores kept.
to_string_enum_spelling(code) ==
    IF Hits(to_string_cases, code) # {}
    THEN Ret(Replace(to_string_cases[First(Hits(to_string_cases, code))][2], " ", "_"))
    ELSE unreachable

\* Mutant: a case that returns the string of another case.
to_string_copied_case(code) ==
    IF code = StatusCode.ABORT THEN Ret("CANCELLED")
    ELSE IF Hits(to_string_cases, code) # {}
    THEN Ret(to_string_cases[First(Hits(to_string_cases, code))][2])
    ELSE unreachable

\* Mutant: a default case that returns a string.
to_string_default_string(code) ==
    IF Hits(to_string_cases, code) # {}
    THEN Ret(to_string_cases[First(Hits(to_string_cases, code))][2])
    ELSE Ret("UNKNOWN")

\* to_string: switch(code); the matching case returns its string, the default
\* case calls unreachable().
to_string(code) ==
    IF Hits(to_string_cases, code) # {}
    THEN Ret(to_string_cases[First(Hits(to_string_cases, code))][2])
    ELSE unreachable

\* The comparisons of the if / else-if chain in from_string, in order, each
\* with the code its branch returns.
from_string_branches ==
    << << "OK",                  StatusCode.OK >>,
       << "CANCELLED",           StatusCode.CANCELLED >>,
       << "INVALID ARGUMENT",    StatusCode.INVALID_ARGUMENT >>,
       << "NOT FOUND",           StatusCode.NOT_FOUND >>,
       << "ALREADY EXISTS",      StatusCode.ALREADY_EXISTS >>,
       << "PERMISSION DENIED",   StatusCode.PERMISSION_DENIED >>,
       << "UNAUTHENTICATED",     StatusCode.UNAUTHENTICATED >>,
       << "OUT OF RANGE",        StatusCode.OUT_OF_RANGE >>,
       << "DEADLINE EXCEEDED",   StatusCode.DEADLINE_EXCEEDED >>,
       << "RESOURCE EXHAUSTED",  StatusCode.RESOURCE_EXHAUSTED >>,
       << "FAILED PRECONDITION", StatusCode.FAILED_PRECONDITION >>,
       << "ABORT",               StatusCode.ABORT >>,
       << "UNIMPLEMENTED",       StatusCode.UNIMPLEMENTED >>,
       << "INTERNAL",            StatusCode.INTERNAL >>,
       << "UNAVAILABLE",         StatusCode.UNAVAILABLE >>,
       << "DATA LOSS",           StatusCode.DATA_LOSS >> >>

\* The chain itself: the first branch whose literal equals str_upper returns;
\* the final else returns StatusCode::OK.
from_string_chain(str_upper) ==
    IF Hits(from_string_branches, str_upper) # {}
    THEN from_string_branches[First(Hits(from_string_branches, str_upper))][2]
    ELSE StatusCode.OK

\* Mutant: one literal of the chain misspelt, so that its display string falls
\* through to the final else.
from_string_misspelt(str) ==
    LET str_upper == to_uppercase(str) IN
    IF str_upper = "CANCELLED" THEN StatusCode.OK
    ELSE IF str_upper = "CANCELED" THEN StatusCode.CANCELLED
    ELSE from_string_chain(str_upper)

\* Mutant: a branch that returns the code of the branch before it.
from_string_copied_branch(str) ==
    LET str_upper == to_uppercase(str) IN
    IF str_upper = "UNAVAILABLE" THEN StatusCode.INTERNAL
    ELSE from_string_chain(str_upper)

\* Mutant: the chain compares str instead of str_upper.
from_string_case_sensitive(str) == from_string_chain(str)

\* Mutant: the enumerator spelling is accepted as well.
from_string_underscore(str) ==
    LET str_upper == Replace(to_uppercase(str), "_", " ") IN from_string_chain(str_upper)

\* Mutant: the final else returns the value after the last enumerator.
from_string_past_the_end(str) ==
    LET str_upper == to_uppercase(str) IN
    IF Hits(from_string_branches, str_upper) # {} THEN from_string_chain(str_upper)
    ELSE StatusCode.DATA_LOSS + 1

\* Mutant: the final else returns StatusCode::INTERNAL.
from_string_internal_default(str) ==
    LET str_upper == to_uppercase(str) IN
    IF Hits(from_string_branches, str_upper) # {} THEN from_string_chain(str_upper)
    ELSE StatusCode.INTERNAL

\* from_string: upper-case the input, then run the chain on str_upper.
from_string(str) ==
    LET str_upper == to_uppercase(str) IN from_string_chain(str_upper)

-----------------------------------------------------------------------------
(* Build type detection (architecture/build_type_detection.hpp) and the    *)
(* check primitive.                                                        *)

\* #if defined(DEBUG) || defined(_DEBUG) ... #elif defined(NDEBUG) &&
\* defined(_RELWITHDEBINFO) ... #else ...
MYSTIC_ARCH_BUILD_TYPE(symbols) ==
    IF "DEBUG" \in symbols \/ "_DEBUG" \in symbols THEN "DEBUG"
    ELSE IF "NDEBUG" \in symbols /\ "_RELWITHDEBINFO" \in symbols
         THEN "RELEASE_WITH_DEBINFO"
    ELSE "RELEASE"

\* Mutant: the check is compiled in for every build type.
MYSTIC_CHECK_every_build(symbols, cond) ==
    IF ~cond THEN "check" ELSE "none"

\* MYSTIC_CHECK(cond, message): the debug-only check primitive.  It is compiled
\* in for a Debug build only, and then ends the process when cond is false.
MYSTIC_CHECK(symbols, cond) ==
    IF MYSTIC_ARCH_BUILD_TYPE(symbols) = "DEBUG" /\ ~cond THEN "check" ELSE "none"

-----------------------------------------------------------------------------
(* Arithmetic types and values.  A value is integer-valued (the model has  *)
(* no fractions), or an infinity, or NaN.                                  *)

ArithmeticTypes ==
    { "bool", "int16_t", "int32_t", "float", "int64_t", "double", "long_double" }

IntegerTypes == { "bool", "int16_t", "int32_t", "int64_t" }

\* sizeof on an LP64 target; a Float32 is its one float member.
sizeof ==
    [ bool |-> 1, int16_t |-> 2, int32_t |-> 4, float |-> 4,
      int64_t |-> 8, double |-> 8, long_double |-> 16, Float32 |-> 4 ]

Fin(n) == [cls |-> "finite", n |-> n]
Inf(sign) == [cls |-> "inf", n |-> sign]
NaN == [cls |-> "nan", n |-> 0]

Abs(n) == IF n < 0 THEN -n ELSE n

\* The significand of a float has FLT_MANT_DIG bits.
FLT_MANT_DIG == 24

RECURSIVE Pow2(_)
Pow2(k) == IF k = 0 THEN 1 ELSE 2 * Pow2(k - 1)

\* The distance between neighbouring floats at the magnitude a, from u upwards.
\* The least integer a float cannot tell from its successor: 2^24.
FloatLimit == Pow2(FLT_MANT_DIG)

RECURSIVE Ulp(_, _)
Ulp(a, u) == IF a < FloatLimit * u THEN u ELSE Ulp(a, 2 * u)

\* The float nearest to the integer n, ties to the even significand.
RoundToFloat(n) ==
    LET a == Abs(n)
        u == Ulp(a, 1)
        q == a \div u
        r == a % u
        m == IF 2 * r < u THEN q
             ELSE IF 2 * r > u THEN q + 1
             ELSE IF q % 2 = 0 THEN q ELSE q + 1
    IN  IF n < 0 THEN -(m * u) ELSE m * u

\* What a conversion with undefined behaviour may leave in an integer.
UndefinedResults == { Fin(0), Fin(-1), Fin(FloatLimit) }

\* The least and the greatest value of an integer type (the 32 and 64 bit
\* types hold every integer of the model).
IntMin == [ bool |-> 0, int16_t |-> -32768 ]
IntMax == [ bool |-> 1, int16_t |-> 32767 ]

InRange(n, T) == T \notin DOMAIN IntMin \/ (IntMin[T] <= n /\ n <= IntMax[T])

\* static_cast<T>(v), as the set of its possible results: a float rounds, a
\* double or long double holds every integer of the model, bool is v != 0, and
\* an integer type holds the value if it is in range (otherwise, and for an
\* infinity or NaN, the behaviour is undefined).
static_cast(T, v) ==
    IF T \in { "double", "long_double" } THEN { v }
    ELSE IF T \in { "float", "Float32" }
         THEN { IF v.cls = "finite" THEN Fin(RoundToFloat(v.n)) ELSE v }
    ELSE IF T = "bool"
         THEN { IF v.cls = "finite" /\ v.n = 0 THEN Fin(0) ELSE Fin(1) }
    ELSE IF v.cls = "finite" /\ InRange(v.n, T) THEN { v }
    ELSE UndefinedResults

\* The one result of a conversion that is defined.
Cast(T, v) == CHOOSE r \in static_cast(T, v) : TRUE

\* The usual arithmetic conversions of float op T.
CommonType(T) == IF T \in { "double", "long_double" } THEN T ELSE "float"

\* a / b in IEEE-754 arithmetic.
Quotient(a, b) ==
    IF b = 0 THEN (IF a = 0 THEN NaN ELSE IF a > 0 THEN Inf(1) ELSE Inf(-1))
    ELSE Fin((IF (a < 0) = (b < 0) THEN 1 ELSE -1) * (Abs(a) \div Abs(b)))

\* Mutant: the addition subtracts.
Arith_subtracting(op, a, b, C) ==
    LET exact == CASE op = "+" -> Fin(a.n - b.n)
                   [] op = "-" -> Fin(a.n - b.n)
                   [] op = "*" -> Fin(a.n * b.n)
                   [] op = "/" -> Quotient(a.n, b.n)
    IN  Cast(C, exact)

\* a op b, both finite and of the type C, rounded to C.
Arith(op, a, b, C) ==
    LET exact == CASE op = "+" -> Fin(a.n + b.n)
                   [] op = "-" -> Fin(a.n - b.n)
                   [] op = "*" -> Fin(a.n * b.n)
                   [] op = "/" -> Quotient(a.n, b.n)
    IN  Cast(C, exact)

\* std::abs(d) < FLT_EPSILON: of the integer-valued d only 0 is below epsilon.
BelowEpsilon(d) == d.cls = "finite" /\ Abs(d.n) < 1

-----------------------------------------------------------------------------
(* class Float32 and its binary operators.                                 *)

\* Float32(ArithmeticType val): m_raw_value = static_cast<float>(val).
Float32(val) == Cast("float", val)

\* Value(): the stored float.
Value(f) == f

\* Mutant: the conversion validates the range of an integer target.
operator_ArithmeticType_range_checked(f, T) ==
    [ trap   |-> IF T \in IntegerTypes \ { "bool" }
                    /\ ~(f.cls = "finite" /\ InRange(f.n, T))
                 THEN "check" ELSE "none",
      values |-> static_cast(T, Value(f)) ]

\* operator ArithmeticType(): static_cast<ArithmeticType>(m_raw_value), with
\* no check before it.
operator_ArithmeticType(f, T) ==
    [ trap |-> "none", values |-> static_cast(T, Value(f)) ]

is_arithmetic_v(T) == T \in ArithmeticTypes

\* An implicit conversion From -> To exists: between arithmetic types, from an
\* arithmetic type to Float32 (the converting constructor) and from Float32 to
\* an arithmetic type (the conversion operator).
is_convertible_v(From, To) ==
    \/ From = To
    \/ From \in ArithmeticTypes /\ To \in ArithmeticTypes \cup { "Float32" }
    \/ From = "Float32" /\ To \in ArithmeticTypes

\* The 16 operator templates.  wrapper: the side of the Float32 parameter;
\* size: the comparison of sizeof(ArithmeticType) with sizeof(float) in the
\* enable_if; ret: the return type; check: the operand the MYSTIC_CHECK of a
\* division tests.
Overloads ==
    << [op |-> "+", wrapper |-> "lhs", size |-> "<=", ret |-> "Float32",        check |-> "none"],
       [op |-> "+", wrapper |-> "lhs", size |-> ">",  ret |-> "ArithmeticType", check |-> "none"],
       [op |-> "+", wrapper |-> "rhs", size |-> "<=", ret |-> "Float32",        check |-> "none"],
       [op |-> "+", wrapper |-> "rhs", size |-> ">",  ret |-> "ArithmeticType", check |-> "none"],
       [op |-> "-", wrapper |-> "lhs", size |-> "<=", ret |-> "Float32",        check |-> "none"],
       [op |-> "-", wrapper |-> "lhs", size |-> ">",  ret |-> "ArithmeticType", check |-> "none"],
       [op |-> "-", wrapper |-> "rhs", size |-> "<=", ret |-> "Float32",        check |-> "none"],
       [op |-> "-", wrapper |-> "rhs", size |-> ">",  ret |-> "ArithmeticType", check |-> "none"],
       [op |-> "*", wrapper |-> "lhs", size |-> "<=", ret |-> "Float32",        check |-> "none"],
       [op |-> "*", wrapper |-> "lhs", size |-> ">",  ret |-> "ArithmeticType", check |-> "none"],
       [op |-> "*", wrapper |-> "rhs", size |-> "<=", ret |-> "Float32",        check |-> "none"],
       [op |-> "*", wrapper |-> "rhs", size |-> ">",  ret |-> "ArithmeticType", check |-> "none"],
       [op |-> "/", wrapper |-> "lhs", size |-> "<=", ret |-> "Float32",        check |-> "rhs"],
       [op |-> "/", wrapper |-> "lhs", size |-> ">",  ret |-> "ArithmeticType", check |-> "rhs"],
       [op |-> "/", wrapper |-> "rhs", size |-> "<=", ret |-> "Float32",        check |-> "rhs"],
       [op |-> "/", wrapper |-> "rhs", size |-> ">",  ret |-> "ArithmeticType", check |-> "rhs"] >>

\* Mutant: the narrow templates require sizeof(ArithmeticType) < sizeof(float).
enable_if_strict(o, A) ==
    /\ is_arithmetic_v(A) \/ is_convertible_v(A, "float")
    /\ IF o.size = "<=" THEN sizeof[A] < sizeof["float"] ELSE sizeof[A] > sizeof["float"]

\* The enable_if of the template o with ArithmeticType = A.
enable_if(o, A) ==
    /\ is_arithmetic_v(A) \/ is_convertible_v(A, "float")
    /\ IF o.size = "<=" THEN sizeof[A] <= sizeof["float"] ELSE sizeof[A] > sizeof["float"]

\* ArithmeticType as deduced for the call L op R: the type of the argument on
\* the template's other side.
Deduced(o, L, R) == IF o.wrapper = "lhs" THEN R ELSE L

\* The type of the argument bound to the template's const Float32& parameter.
Bound(o, L, R) == IF o.wrapper = "lhs" THEN L ELSE R

\* The templates that are viable for the call L op R.
Viable(op, L, R) ==
    { i \in 1..Len(Overloads) :
        /\ Overloads[i].op = op
        /\ enable_if(Overloads[i], Deduced(Overloads[i], L, R))
        /\ is_convertible_v(Bound(Overloads[i], L, R), "Float32") }

\* The rank of the conversion of each argument: 0 for an exact match, 1 for a
\* user-defined conversion (a temporary Float32 built from the argument).
Conversions(i, L, R) ==
    LET c == IF Bound(Overloads[i], L, R) = "Float32" THEN 0 ELSE 1
    IN  IF Overloads[i].wrapper = "lhs" THEN << c, 0 >> ELSE << 0, c >>

\* i is a better candidate than j: no argument converts worse, one converts
\* better.
Better(i, j, L, R) ==
    LET ci == Conversions(i, L, R)
        cj == Conversions(j, L, R)
    IN  /\ \A k \in 1..2 : ci[k] <= cj[k]
        /\ \E k \in 1..2 : ci[k] < cj[k]

\* Overload resolution: the viable templates better than every other one. The
\* call is ill-formed when this set is empty.
Selected(op, L, R) ==
    { i \in Viable(op, L, R) : \A j \in Viable(op, L, R) \ { i } : Better(i, j, L, R) }

\* The return type of the template o for the call L op R.
ReturnType(o, L, R) == IF o.ret = "Float32" THEN "Float32" ELSE Deduced(o, L, R)

\* Mutant: the wrapper-right templates compute rhs.Value() op lhs.
Body_wrapper_first(symbols, o, a, L, b, R) ==
    LET T == Deduced(o, L, R)
        C == CommonType(T)
        value == IF o.wrapper = "rhs" THEN Arith(o.op, Cast(C, b), Cast(C, a), C)
                 ELSE Arith(o.op, Cast(C, a), Cast(C, b), C)
    IN  [ trap   |-> IF o.check = "rhs" THEN MYSTIC_CHECK(symbols, BelowEpsilon(b))
                     ELSE "none",
          values |-> static_cast(ReturnType(o, L, R), value) ]

\* The body of the template o for the operands a : L and b : R (a Float32
\* operand gives its Value()): the trap of the check, and the results the
\* return statement can produce.
Body(symbols, o, a, L, b, R) ==
    LET T == Deduced(o, L, R)
        C == CommonType(T)
        value == Arith(o.op, Cast(C, a), Cast(C, b), C)
    IN  [ trap   |-> IF o.check = "rhs" THEN MYSTIC_CHECK(symbols, BelowEpsilon(b))
                     ELSE "none",
          values |-> static_cast(ReturnType(o, L, R), value) ]

-----------------------------------------------------------------------------
(* enum class byte : unsigned char, its conversions and its operators       *)
(* (types/internal/byte_internal.hpp).  A byte is its value 0..255; an      *)
(* unsigned int is the set of the positions of its 1 bits.                  *)

\* MYSTIC_DCHECK(cond, message): the debug-only check primitive.  It is compiled
\* in for a Debug build only, and then ends the process when cond is false.
MYSTIC_DCHECK(symbols, cond) ==
    IF MYSTIC_ARCH_BUILD_TYPE(symbols) = "DEBUG" /\ ~cond THEN "dcheck" ELSE "none"

\* The bits of an unsigned int and of a byte.
UINT_BIT == 32
CHAR_BIT == 8

\* The unsigned int with the value n of a byte: the upper bits are 0.
Bits(n) == { i \in 0..(CHAR_BIT - 1) : (n \div Pow2(i)) % 2 = 1 }

\* The value of the low CHAR_BIT bits of u: static_cast<byte>(u).  An
\* enumeration with the underlying type unsigned char takes the value modulo
\* 2^8.
RECURSIVE LowValue(_, _)
LowValue(u, i) ==
    IF i = CHAR_BIT THEN 0
    ELSE (IF i \in u THEN Pow2(i) ELSE 0) + LowValue(u, i + 1)

static_cast_byte(u) == LowValue(u, 0)

\* static_cast<byte>(value) for an integer value of any sign.
static_cast_byte_of_integer(value) == value % Pow2(CHAR_BIT)

\* u << s and u >> s on unsigned int.  A shift by a negative amount or by
\* UINT_BIT or more is undefined: the hardware shifts by s modulo UINT_BIT, a
\* constant folder gives 0.
ShiftLeft(u, s) ==
    IF s \in 0..(UINT_BIT - 1)
    THEN { { i + s : i \in u } \cap (0..(UINT_BIT - 1)) }
    ELSE { { i + (s % UINT_BIT) : i \in u } \cap (0..(UINT_BIT - 1)), {} }

ShiftRight(u, s) ==
    IF s \in 0..(UINT_BIT - 1)
    THEN { { i - s : i \in u } \cap (0..(UINT_BIT - 1)) }
    ELSE { { i - (s % UINT_BIT) : i \in u } \cap (0..(UINT_BIT - 1)), {} }

\* ConvertToInteger<unsigned int>(b): static_cast<unsigned int>(b).
ConvertToInteger(b) == Bits(b)

\* ConvertToByte(value): the check of the range, then static_cast<byte>(value).
\* With IntegerType = unsigned int a negative argument arrives as a value above
\* 255.
ConvertToByte(symbols, value) ==
    [ trap  |-> MYSTIC_DCHECK(symbols, value >= 0 /\ value <= 255),
      value |-> static_cast_byte_of_integer(value) ]

\* The bodies of the operators, as the sets of the bytes they can return.
OperatorBody(op, lhs, rhs) ==
    CASE op = "&"  -> { static_cast_byte(ConvertToInteger(lhs) \cap ConvertToInteger(rhs)) }
      [] op = "|"  -> { static_cast_byte(ConvertToInteger(lhs) \cup ConvertToInteger(rhs)) }
      [] op = "^"  -> { static_cast_byte((ConvertToInteger(lhs) \cup ConvertToInteger(rhs))
                                            \ (ConvertToInteger(lhs) \cap ConvertToInteger(rhs))) }
      [] op = "~"  -> { static_cast_byte((0..(UINT_BIT - 1)) \ ConvertToInteger(lhs)) }
      [] op = "<<" -> { static_cast_byte(u) : u \in ShiftLeft(ConvertToInteger(lhs), rhs) }
      [] op = ">>" -> { static_cast_byte(u) : u \in ShiftRight(ConvertToInteger(lhs), rhs) }

\* The binary operator a compound assignment applies: lhs = lhs op rhs.
Applied(op) == SubSeq(op, 1, Len(op) - 1)

\* The function definitions of the header, in the order of the source.  params:
\* the parameter types, a top-level const dropped as the language drops it from
\* a signature; names: the parameter names; cast: the type named by the
\* static_cast of the body; trait: the body hands is_integral_v to
\* MYSTIC_DCHECK; calls: the functions of the header the body calls.
ByteDefinitions ==
    << [name |-> "ConvertToInteger", params |-> <<"byte">>, names |-> <<"b">>,
        cast |-> "IntegerType", trait |-> TRUE, calls |-> {}],
       [name |-> "ConvertToInteger", params |-> <<"byte">>, names |-> <<"b">>,
        cast |-> "IntegerType", trait |-> TRUE, calls |-> {}],
       [name |-> "ConvertToByte", params |-> <<"IntegerType">>, names |-> <<"value">>,
        cast |-> "byte", trait |-> TRUE, calls |-> {}],
       [name |-> "ConvertToByte", params |-> <<"IntegerType">>, names |-> <<"value">>,
        cast |-> "byte", trait |-> TRUE, calls |-> {}],
       [name |-> "&", params |-> <<"const byte&", "const byte&">>, names |-> <<"lhs", "rhs">>,
        cast |-> "byte", trait |-> FALSE, calls |-> {"ConvertToInteger"}],
       [name |-> "|", params |-> <<"const byte&", "const byte&">>, names |-> <<"lhs", "rhs">>,
        cast |-> "byte", trait |-> FALSE, calls |-> {"ConvertToInteger"}],
       [name |-> "^", params |-> <<"const byte&", "const byte&">>, names |-> <<"lhs", "rhs">>,
        cast |-> "byte", trait |-> FALSE, calls |-> {"ConvertToInteger"}],
       [name |-> "~", params |-> <<"const byte&">>, names |-> <<"byte">>,
        cast |-> "byte", trait |-> FALSE, calls |-> {"ConvertToInteger"}],
       [name |-> "<<", params |-> <<"const byte&", "IntegerType">>, names |-> <<"byte", "shift">>,
        cast |-> "byte", trait |-> TRUE, calls |-> {"ConvertToInteger"}],
       [name |-> ">>", params |-> <<"const byte&", "IntegerType">>, names |-> <<"byte", "shift">>,
        cast |-> "byte", trait |-> TRUE, calls |-> {"ConvertToInteger"}],
       [name |-> "&=", params |-> <<"byte&", "const byte&">>, names |-> <<"lhs", "rhs">>,
        cast |-> "none", trait |-> FALSE, calls |-> {"&"}],
       [name |-> "|=", params |-> <<"byte&", "const byte&">>, names |-> <<"lhs", "rhs">>,
        cast |-> "none", trait |-> FALSE, calls |-> {"|"}],
       [name |-> "^=", params |-> <<"byte&", "const byte&">>, names |-> <<"lhs", "rhs">>,
        cast |-> "none", trait |-> FALSE, calls |-> {"^"}],
       [name |-> "<<=", params |-> <<"byte&", "IntegerType">>, names |-> <<"byte", "shift">>,
        cast |-> "none", trait |-> TRUE, calls |-> {"<<"}],
       [name |-> ">>=", params |-> <<"byte&", "IntegerType">>, names |-> <<"byte", "shift">>,
        cast |-> "none", trait |-> TRUE, calls |-> {">>"}] >>

\* traits::is_integral_v is declared with the initializer
\* typename std::is_integral<Type>::value, which names no type: the
\* declaration is ill-formed, and so is every use of the variable.
is_integral_v_declared == FALSE

\* What the compiler diagnoses in the i-th definition: a second definition of
\* the same template with the same signature, a static_cast to a name that a
\* parameter of the function hides, a use of is_integral_v.
Diagnostics(i) ==
    LET d == ByteDefinitions[i] IN
    (IF \E j \in 1..(i - 1) : /\ ByteDefinitions[j].name = d.name
                              /\ ByteDefinitions[j].params = d.params
     THEN { "redefinition" } ELSE {})
    \cup (IF \E k \in 1..Len(d.names) : d.names[k] = d.cast
          THEN { "parameter hides type" } ELSE {})
    \cup (IF d.trait /\ ~is_integral_v_declared THEN { "is_integral_v" } ELSE {})

\* The definitions of the function fn, and those of the functions they call.
RECURSIVE Reaches(_, _)
Reaches(fns, n) ==
    LET D == { i \in 1..Len(ByteDefinitions) : ByteDefinitions[i].name \in fns }
        more == fns \cup UNION { ByteDefinitions[i].calls : i \in D }
    IN  IF n = 0 \/ more = fns THEN D ELSE Reaches(more, n - 1)

\* A program that calls fn is well-formed: no definition it needs is diagnosed.
WellFormed(fn) ==
    \A i \in Reaches({ fn }, Len(ByteDefinitions)) : Diagnostics(i) = {}

\* The call fn(value) of a conversion, the call lhs op rhs of an operator: the
\* trap and the bytes (or the integer) the call can return.
ByteCall(symbols, fn, lhs, rhs) ==
    IF ~WellFormed(fn) THEN [ trap |-> "ill-formed", values |-> {} ]
    ELSE CASE fn = "ConvertToByte" ->
                LET r == ConvertToByte(symbols, lhs)
                IN  [ trap |-> r.trap, values |-> { r.value } ]
           [] fn = "ConvertToInteger" ->
                [ trap |-> "none", values |-> { static_cast_byte(ConvertToInteger(lhs)) } ]
           [] fn \in { "&", "|", "^", "~", "<<", ">>" } ->
                [ trap |-> "none", values |-> OperatorBody(fn, lhs, rhs) ]
           [] OTHER ->
                [ trap |-> "none", values |-> OperatorBody(Applied(fn), lhs, rhs) ]

-----------------------------------------------------------------------------
(* Build type, SIMD and GPU detection (architecture/build_type_detection.hpp, *)
(* simd_detection.hpp, gpu_detection.hpp): chains of #if over the symbols    *)
(* predefined for the translation unit, a guardrail, a name, and a function  *)
(* returning the name.                                                      *)

\* MYSTIC_ARCH_BUILD_TYPE_NAME: the name selected by comparing the tag.
MYSTIC_ARCH_BUILD_TYPE_NAME(symbols) ==
    IF MYSTIC_ARCH_BUILD_TYPE(symbols) = "DEBUG" THEN "Debug"
    ELSE IF MYSTIC_ARCH_BUILD_TYPE(symbols) = "RELEASE_WITH_DEBINFO"
         THEN "ReleaseWithDebInfo"
    ELSE "Release"

\* The tokens after the keyword namespace, up to the brace, in the
\* declarations that enclose the three functions.
NamespaceName(fn) ==
    CASE fn = "get_build_type_name" -> << "build", "type" >>
      [] fn = "get_simd_name"       -> << "simd" >>
      [] fn = "get_gpu_name"        -> << "gpu" >>

\* A namespace is named by one identifier.
NamespaceDeclared(fn) == Len(NamespaceName(fn)) = 1

\* The SIMD tags.
MYSTIC_ARCH_SIMD_AVX2 == 0
MYSTIC_ARCH_SIMD_AVX512 == 1
MYSTIC_ARCH_SIMD_NEON == 2
MYSTIC_ARCH_SIMD_SVE == 3
MYSTIC_ARCH_SIMD_SVE2 == 4
MYSTIC_ARCH_SIMD_UNKNOWN == 5

MYSTIC_ARCH_SIMD(symbols) ==
    IF "__AVX512__" \in symbols THEN MYSTIC_ARCH_SIMD_AVX512
    ELSE IF "__AVX2__" \in symbols THEN MYSTIC_ARCH_SIMD_AVX2
    ELSE IF "__ARM_FEATURE_SVE2" \in symbols /\ "__ARM_FEATURE_SME" \in symbols
         THEN MYSTIC_ARCH_SIMD_SVE2
    ELSE IF "__ARM_FEATURE_SVE" \in symbols THEN MYSTIC_ARCH_SIMD_SVE
    ELSE IF "__ARM_NEON" \in symbols THEN MYSTIC_ARCH_SIMD_NEON
    ELSE MYSTIC_ARCH_SIMD_UNKNOWN

\* Mutant: the guardrail stops every translation unit without a known SIMD.
SimdGuardrail_unconditional(symbols) ==
    MYSTIC_ARCH_SIMD(symbols) = MYSTIC_ARCH_SIMD_UNKNOWN

\* The condition of the #error.
SimdGuardrail(symbols) ==
    "MYSTIC_FEATURE_USE_SIMD" \in symbols
        /\ MYSTIC_ARCH_SIMD(symbols) = MYSTIC_ARCH_SIMD_UNKNOWN

MYSTIC_ARCH_SIMD_NAME(symbols) ==
    LET tag == MYSTIC_ARCH_SIMD(symbols)
    IN  IF tag = MYSTIC_ARCH_SIMD_AVX512 THEN "AVX512"
        ELSE IF tag = MYSTIC_ARCH_SIMD_AVX2 THEN "AVX2"
        ELSE IF tag = MYSTIC_ARCH_SIMD_SVE2 THEN "SVE2"
        ELSE IF tag = MYSTIC_ARCH_SIMD_SVE THEN "SVE"
        ELSE IF tag = MYSTIC_ARCH_SIMD_NEON THEN "NEON"
        ELSE "UNKNOWN"

\* The GPU tags.
MYSTIC_ARCH_GPU_NVIDIA == 0
MYSTIC_ARCH_GPU_AMD == 1
MYSTIC_ARCH_GPU_INTEL == 2
MYSTIC_ARCH_GPU_UNKNOWN == 3

MYSTIC_ARCH_GPU(symbols) ==
    IF { "__HIP_PLATFORM_NVIDIA__", "__NVCC__", "__CUDACC__" } \cap symbols # {}
    THEN MYSTIC_ARCH_GPU_NVIDIA
    ELSE IF { "__HIP_PLATFORM_AMD__", "__HCC__" } \cap symbols # {}
         THEN MYSTIC_ARCH_GPU_AMD
    ELSE IF { "__INTEL_LLVM_COMPILER", "__INTEL_COMPILER", "__SYCL_DEVICE_ONLY__" }
               \cap symbols # {}
         THEN MYSTIC_ARCH_GPU_INTEL
    ELSE MYSTIC_ARCH_GPU_UNKNOWN

GpuGuardrail(symbols) ==
    "MYSTIC_FEATURE_USE_GPU" \in symbols
        /\ MYSTIC_ARCH_GPU(symbols) = MYSTIC_ARCH_GPU_UNKNOWN

MYSTIC_ARCH_GPU_NAME(symbols) ==
    LET tag == MYSTIC_ARCH_GPU(symbols)
    IN  IF tag = MYSTIC_ARCH_GPU_NVIDIA THEN "NVIDIA"
        ELSE IF tag = MYSTIC_ARCH_GPU_AMD THEN "AMD"
        ELSE IF tag = MYSTIC_ARCH_GPU_INTEL THEN "Intel"
        ELSE "UNKNOWN"

\* A translation unit that includes the header of fn and calls fn: what stops
\* the compilation, the tag detected and the name returned.
Detect(symbols, fn) ==
    LET stopped ==
          CASE fn = "get_build_type_name" -> FALSE
            [] fn = "get_simd_name"       -> SimdGuardrail(symbols)
            [] fn = "get_gpu_name"        -> GpuGuardrail(symbols)
        tag ==
          CASE fn = "get_build_type_name" ->
                 (CASE MYSTIC_ARCH_BUILD_TYPE(symbols) = "DEBUG" -> 0
                    [] MYSTIC_ARCH_BUILD_TYPE(symbols) = "RELEASE_WITH_DEBINFO" -> 1
                    [] OTHER -> 2)
            [] fn = "get_simd_name"       -> MYSTIC_ARCH_SIMD(symbols)
            [] fn = "get_gpu_name"        -> MYSTIC_ARCH_GPU(symbols)
        name ==
          CASE fn = "get_build_type_name" -> MYSTIC_ARCH_BUILD_TYPE_NAME(symbols)
            [] fn = "get_simd_name"       -> MYSTIC_ARCH_SIMD_NAME(symbols)
            [] fn = "get_gpu_name"        -> MYSTIC_ARCH_GPU_NAME(symbols)
    IN  [ trap  |-> IF stopped THEN "#error"
                    ELSE IF ~NamespaceDeclared(fn) THEN "ill-formed"
                    ELSE "none",
          tag   |-> tag,
          value |-> name ]

-----------------------------------------------------------------------------
(* The strings and codes a caller starts from.                             *)

\* The string literals of the code: what to_string returns and what from_string
\* compares with.
CodeLiterals ==
    { to_string_cases[i][2] : i \in 1..Len(to_string_cases) }
        \cup { from_string_branches[i][1] : i \in 1..Len(from_string_branches) }

\* s with the characters at the positions of mask in lower case.
RECURSIVE LowerAt(_, _, _)
LowerAt(s, mask, i) ==
    IF s = "" THEN ""
    ELSE (IF i \in mask THEN to_lower_char(CharAt(s, 1)) ELSE CharAt(s, 1))
         \o LowerAt(Tail(s), mask, i + 1)

Masks(s) == (SUBSET (1..MaskWidth)) \cup { 1..Len(s) }

CaseVariants == UNION { { LowerAt(s, m, 1) : m \in Masks(s) } : s \in CodeLiterals }

\* The enumerator spellings (NOT_FOUND), upper and lower case.
UnderscoreSpellings ==
    LET U == { Replace(s, " ", "_") : s \in CodeLiterals }
    IN  U \cup { LowerAt(s, 1..Len(s), 1) : s \in U }

\* Near misses of the display strings.
NearMisses ==
    UNION { { SubSeq(s, 1, Len(s) - 1), Tail(s), s \o " ", " " \o s, s \o "ED",
              Replace(s, " ", "  ") } : s \in CodeLiterals }

GarbageAlphabet == { "O", "K", "o", "k", " ", "_", "7" }

RECURSIVE StringsUpTo(_)
StringsUpTo(n) ==
    IF n = 0 THEN { "" }
    ELSE LET S == StringsUpTo(n - 1)
         IN  S \cup { s \o c : s \in S, c \in GarbageAlphabet }

StringInputs ==
    CaseVariants \cup UnderscoreSpellings \cup NearMisses
        \cup StringsUpTo(MaxGarbageLen) \cup { "UNKNOWN", "CANCELED", "aborted" }

CodeInputs == 0..MaxOrdinal

Code(c) == [type |-> "StatusCode", code |-> c, str |-> "", num |-> Fin(0)]
Str(s)  == [type |-> "string", code |-> 0, str |-> s, num |-> Fin(0)]
\* A Float32 whose m_raw_value is x.
Wrapper(x) == [type |-> "Float32", code |-> 0, str |-> "", num |-> x]

\* A value v of the native arithmetic type T.
Native(T, v) == [type |-> T, code |-> 0, str |-> "", num |-> v]

\* The integers the numeric arguments are drawn from.
Numbers == (-1..MaxSmall) \cup { FloatLimit + k : k \in -1..MaxOffset }

\* The values of the type T among them; a Float32 operand is a constructed one.
Operands(T) ==
    IF T \in IntegerTypes THEN { Fin(n) : n \in { m \in Numbers : InRange(m, T) } }
    ELSE { Cast(T, Fin(n)) : n \in Numbers }

\* The values a Float32 is constructed from: a floating-point argument can also
\* be an infinity or a NaN.
ConstructorArguments(T) ==
    Operands(T) \cup (IF T \in IntegerTypes THEN {} ELSE { Inf(1), Inf(-1), NaN })

OperandTypes == ArithmeticTypes \cup { "Float32" }

Ops == { "+", "-", "*", "/" }

\* The configurations of predefined symbols a build is made with.
BuildConfigs ==
    { { "DEBUG" }, { "NDEBUG" }, { "NDEBUG", "_RELWITHDEBINFO" } }

\* The operand pairs whose exact result the model can hold: a quotient that
\* is an integer (or a division by zero), a product with one small factor.
InModel(op, a, b) ==
    CASE op = "/" -> IF b.n = 0 THEN TRUE ELSE Abs(a.n) % Abs(b.n) = 0
      [] op = "*" -> IF Abs(a.n) <= MaxSmall THEN TRUE ELSE Abs(b.n) <= MaxSmall
      [] OTHER    -> TRUE

\* The byte with the value v, and the integer v.
Byte(v) == [type |-> "byte", code |-> v, str |-> "", num |-> Fin(0)]
Integer(v) == [type |-> "int", code |-> v, str |-> "", num |-> Fin(0)]

ByteValues == 0..(Pow2(CHAR_BIT) - 1)

\* The right-hand bytes: no bit, one bit, alternating bits, every bit.
ByteOperands == { 0, 1, 85, 128, 170, 255 }

ShiftAmounts == (0..MaxShift) \cup { UINT_BIT - 1, UINT_BIT }

IntegerInputs == (-MaxExcess)..(Pow2(CHAR_BIT) - 1 + MaxExcess)

\* A translation unit that includes a detection header, and the name a
\* function of the header has returned to it.
TranslationUnit == [type |-> "unit", code |-> 0, str |-> "", num |-> Fin(0)]
Name(n) == [type |-> "name", code |-> 0, str |-> n, num |-> Fin(0)]

\* The symbols the three detection chains and the two guardrails test.
BuildSymbols == { "DEBUG", "_DEBUG", "NDEBUG", "_RELWITHDEBINFO" }

SimdSymbols ==
    { "__AVX512__", "__AVX2__", "__ARM_FEATURE_SVE2", "__ARM_FEATURE_SME",
      "__ARM_FEATURE_SVE", "__ARM_NEON", "MYSTIC_FEATURE_USE_SIMD" }

GpuSymbols ==
    { "__HIP_PLATFORM_NVIDIA__", "__NVCC__", "__CUDACC__", "__HIP_PLATFORM_AMD__",
      "__HCC__", "__INTEL_LLVM_COMPILER", "__INTEL_COMPILER", "__SYCL_DEVICE_ONLY__",
      "MYSTIC_FEATURE_USE_GPU" }

\* The symbols predefined for a translation unit: every combination of the
\* symbols one header tests, and the combinations of the two feature requests
\* with a SIMD and a GPU.
UnitConfigs ==
    (SUBSET BuildSymbols) \cup (SUBSET SimdSymbols) \cup (SUBSET GpuSymbols)
        \cup (SUBSET { "MYSTIC_FEATURE_USE_SIMD", "MYSTIC_FEATURE_USE_GPU",
                       "__ARM_NEON", "__HCC__" })

\* The operand y of the type T, on the side opposite to the wrapper's.
Operand(T, y, side) == [T |-> T, y |-> y, wrapper |-> side]

NoOperand == Operand("none", Fin(0), "none")

NoCall ==
    [ op |-> "none", viable |-> {}, selected |-> {}, rtype |-> "none", res |-> Fin(0) ]

-----------------------------------------------------------------------------
(* The caller.                                                             *)

Init ==
    /\ \/ /\ predefined \in BuildConfigs
          /\ \/ /\ input \in { Code(c) : c \in CodeInputs }
                /\ operand = NoOperand
             \/ /\ input \in { Str(s) : s \in StringInputs }
                /\ operand = NoOperand
             \/ /\ \E T \in ArithmeticTypes :
                     input \in { Wrapper(Float32(val)) : val \in Operands(T) }
                /\ \E T \in OperandTypes, side \in { "lhs", "rhs" } :
                     operand \in { Operand(T, y, side) : y \in Operands(T) }
             \/ /\ \E T \in ArithmeticTypes :
                     input \in { Native(T, val) : val \in ConstructorArguments(T) }
                /\ operand = NoOperand
             \/ /\ input \in { Integer(v) : v \in IntegerInputs }
                /\ operand = NoOperand
             \/ /\ input \in { Byte(v) : v \in ByteValues }
                /\ \/ operand \in { Operand("byte", Fin(b), "lhs") : b \in ByteOperands }
                   \/ operand \in { Operand("unsigned_int", Fin(s), "lhs") : s \in ShiftAmounts }
       \/ /\ predefined \in UnitConfigs
          /\ input = TranslationUnit
          /\ operand = NoOperand
    /\ cur = input
    /\ calls = << >>
    /\ call = NoCall
    /\ trap = "none"
    /\ threads = << >>

Running == trap = "none" /\ Len(calls) < MaxCalls

\* s = to_string(code): the returned string, or the process ends in the trap.
ToString ==
    /\ Running
    /\ cur.type = "StatusCode"
    /\ LET r == to_string(cur.code) IN
       /\ trap' = r.trap
       /\ cur' = IF r.trap = "none" THEN Str(r.value) ELSE cur
    /\ calls' = Append(calls, "to_string")
    /\ UNCHANGED <<threads, predefined, input, operand, call>>

\* code = from_string(str)
FromString ==
    /\ Running
    /\ cur.type = "string"
    /\ cur' = Code(from_string(cur.str))
    /\ calls' = Append(calls, "from_string")
    /\ UNCHANGED <<threads, predefined, input, operand, call, trap>>

\* str = string_utils::to_uppercase(str)
ToUppercase ==
    /\ Running
    /\ cur.type = "string"
    /\ cur' = Str(to_uppercase(cur.str))
    /\ calls' = Append(calls, "to_uppercase")
    /\ UNCHANGED <<threads, predefined, input, operand, call, trap>>

\* The calls made on the constructed Float32.
FloatCalls == Len(SelectSeq(calls, LAMBDA c : c # "Float32"))

\* The caller holds a Float32 and may call on it.
FloatRunning ==
    /\ trap = "none"
    /\ cur.type = "Float32"
    /\ FloatCalls < MaxFloatCalls

\* Float32 w(val): the caller's native value becomes a Float32.
Construct ==
    /\ trap = "none"
    /\ cur.type \in ArithmeticTypes
    /\ cur' = Wrapper(Float32(cur.num))
    /\ calls' = Append(calls, "Float32")
    /\ UNCHANGED <<threads, predefined, input, operand, call, trap>>

\* Mutant: Value() hands the stored float out and leaves 0 behind.
CallValue_resetting ==
    /\ FloatRunning
    /\ call' = [ NoCall EXCEPT !.op = "Value", !.rtype = "float", !.res = Value(cur.num) ]
    /\ cur' = Wrapper(Fin(0))
    /\ calls' = Append(calls, "Value")
    /\ UNCHANGED <<threads, predefined, input, operand, trap>>

\* w.Value()
CallValue ==
    /\ FloatRunning
    /\ call' = [ NoCall EXCEPT !.op = "Value", !.rtype = "float", !.res = Value(cur.num) ]
    /\ calls' = Append(calls, "Value")
    /\ UNCHANGED <<threads, predefined, input, operand, cur, trap>>

\* static_cast<T>(w), or an implicit conversion of w to T.
Convert(T) ==
    /\ FloatRunning
    /\ LET conv == operator_ArithmeticType(cur.num, T)
       IN  /\ trap' = conv.trap
           /\ IF conv.trap = "none"
              THEN \E r \in conv.values :
                     call' = [ NoCall EXCEPT !.op = "convert", !.rtype = T, !.res = r ]
              ELSE call' = [ NoCall EXCEPT !.op = "convert", !.rtype = T ]
    /\ calls' = Append(calls, "operator " \o T)
    /\ UNCHANGED <<threads, predefined, input, operand, cur>>

\* w op y (the wrapper on the "lhs") or y op w (on the "rhs") for the caller's
\* Float32 w and its operand y: overload resolution picks the template, whose
\* body traps or returns.  Without a selected template the program is
\* ill-formed.
BinaryOperator(op) ==
    /\ FloatRunning
    /\ operand # NoOperand
    /\ LET side == operand.wrapper
           L == IF side = "lhs" THEN "Float32" ELSE operand.T
           R == IF side = "lhs" THEN operand.T ELSE "Float32"
           a == IF side = "lhs" THEN Value(cur.num) ELSE operand.y
           b == IF side = "lhs" THEN operand.y ELSE Value(cur.num)
           sel == Selected(op, L, R)
           this == [ op |-> op, viable |-> Viable(op, L, R), selected |-> sel,
                     rtype |-> "none", res |-> Fin(0) ]
       IN  /\ InModel(op, a, b)
           /\ IF sel = {}
              THEN /\ trap' = "ill-formed"
                   /\ call' = this
              ELSE LET o == Overloads[CHOOSE i \in sel : TRUE]
                       body == Body(predefined, o, a, L, b, R)
                   IN  /\ trap' = body.trap
                       /\ IF body.trap = "none"
                          THEN \E r \in body.values :
                                 call' = [this EXCEPT !.rtype = ReturnType(o, L, R),
                                                      !.res = r]
                          ELSE call' = [this EXCEPT !.rtype = ReturnType(o, L, R)]
    /\ calls' = Append(calls, "operator" \o op)
    /\ UNCHANGED <<threads, predefined, input, operand, cur>>

\* The caller may call with its byte or its integer.
ByteRunning == trap = "none" /\ Len(calls) < MaxByteCalls

\* b = ConvertToByte(value)
CallConvertToByte ==
    /\ ByteRunning
    /\ cur.type = "int"
    /\ LET r == ByteCall(predefined, "ConvertToByte", cur.code, 0)
       IN  /\ trap' = r.trap
           /\ IF r.trap = "none" THEN \E v \in r.values : cur' = Byte(v)
              ELSE cur' = cur
    /\ calls' = Append(calls, "ConvertToByte")
    /\ UNCHANGED <<threads, predefined, input, operand, call>>

\* value = ConvertToInteger(b)
CallConvertToInteger ==
    /\ ByteRunning
    /\ cur.type = "byte"
    /\ LET r == ByteCall(predefined, "ConvertToInteger", cur.code, 0)
       IN  /\ trap' = r.trap
           /\ IF r.trap = "none" THEN \E v \in r.values : cur' = Integer(v)
              ELSE cur' = cur
    /\ calls' = Append(calls, "ConvertToInteger")
    /\ UNCHANGED <<threads, predefined, input, operand, call>>

\* The operators a byte b takes with the operand: the bitwise ones with a
\* byte, the shifts with an amount, ~ by itself.
OperatorsFor(T) ==
    IF T = "byte" THEN { "&", "|", "^", "~" } ELSE { "<<", ">>", "~" }

\* b op rhs, or ~b: the result is a new byte.
ByteOperator(op) ==
    /\ ByteRunning
    /\ cur.type = "byte"
    /\ op \in OperatorsFor(operand.T)
    /\ LET r == ByteCall(predefined, op, cur.code, operand.y.n)
       IN  /\ trap' = r.trap
           /\ IF r.trap = "none"
              THEN \E v \in r.values :
                     call' = [ NoCall EXCEPT !.op = op, !.rtype = "byte", !.res = Fin(v) ]
              ELSE call' = [ NoCall EXCEPT !.op = op, !.rtype = "byte" ]
    /\ calls' = Append(calls, "operator" \o op)
    /\ UNCHANGED <<threads, predefined, input, operand, cur>>

\* b op= rhs: the result is assigned to b, and the reference to b returned.
CompoundAssignment(op) ==
    /\ ByteRunning
    /\ cur.type = "byte"
    /\ Applied(op) \in OperatorsFor(operand.T) \ { "~" }
    /\ LET r == ByteCall(predefined, op, cur.code, operand.y.n)
       IN  /\ trap' = r.trap
           /\ IF r.trap = "none"
              THEN \E v \in r.values :
                     /\ cur' = Byte(v)
                     /\ call' = [ NoCall EXCEPT !.op = op, !.rtype = "byte&", !.res = Fin(v) ]
              ELSE /\ cur' = cur
                   /\ call' = [ NoCall EXCEPT !.op = op, !.rtype = "byte&" ]
    /\ calls' = Append(calls, "operator" \o op)
    /\ UNCHANGED <<threads, predefined, input, operand>>

\* name = fn(), in a translation unit that includes the header of fn.
GetName(fn) ==
    /\ trap = "none"
    /\ cur.type = "unit"
    /\ LET r == Detect(predefined, fn)
       IN  /\ trap' = r.trap
           /\ cur' = IF r.trap = "none" THEN Name(r.value) ELSE cur
           /\ call' = [ NoCall EXCEPT !.op = fn, !.rtype = "const char*", !.res = Fin(r.tag) ]
    /\ calls' = Append(calls, fn)
    /\ UNCHANGED <<threads, predefined, input, operand>>

get_build_type_name == GetName("get_build_type_name")
get_simd_name == GetName("get_simd_name")
get_gpu_name == GetName("get_gpu_name")

OperatorPlus == BinaryOperator("+")
OperatorMinus == BinaryOperator("-")
OperatorTimes == BinaryOperator("*")
OperatorDivide == BinaryOperator("/")

Next ==
    \/ ToString
    \/ FromString
    \/ ToUppercase
    \/ OperatorPlus
    \/ OperatorMinus
    \/ OperatorTimes
    \/ OperatorDivide
    \/ Construct
    \/ CallValue
    \/ \E T \in ArithmeticTypes : Convert(T)
    \/ get_build_type_name
    \/ get_simd_name
    \/ get_gpu_name
    \/ CallConvertToByte
    \/ CallConvertToInteger
    \/ \E op \in { "&", "|", "^", "~", "<<", ">>" } : ByteOperator(op)
    \/ \E op \in { "&=", "|=", "^=", "<<=", ">>=" } : CompoundAssignment(op)

Spec == Init /\ [][Next]_vars

-----------------------------------------------------------------------------
(* Concurrent callers.  The threads share one object (a StatusCode, a       *)
(* string or a Float32, in cur) and one native operand, each bound to the   *)
(* const reference parameters of the calls; a thread reads its arguments    *)
(* through the references, one read per step, computes on its own copies    *)
(* and returns.  A trap ends the process and every thread with it.          *)

NoValue == [type |-> "none", code |-> 0, str |-> "", num |-> Fin(0)]

\* A thread about to call fn.
Thread(fn) == [ fn |-> fn, pc |-> "call", arg |-> NoValue, other |-> Fin(0), ret |-> NoValue ]

\* The functions that take the object v.
ThreadCalls(v) ==
    IF v.type = "StatusCode" THEN { "to_string" }
    ELSE IF v.type = "string" THEN { "from_string" }
    ELSE { "Value", "convert" } \cup Ops

\* The strings the threads share: the literals of the code and the enumerator
\* spellings, upper and lower case.
SharedStrings == CodeLiterals \cup UnderscoreSpellings

\* The Float32 values and the native operands the threads share.
SharedNumbers == { 0, 2 }
SharedTypes == { "int32_t", "int64_t" }

\* fn applied to the copies a thread holds of the object (arg) and of the
\* native operand (y): the trap, or the values the call can return.  A
\* conversion is to the operand's type.
CallResult(fn, arg, y) ==
    CASE fn = "to_string" ->
           LET r == to_string(arg.code)
           IN  [ trap |-> r.trap,
                 rets |-> IF r.trap = "none" THEN { Str(r.value) } ELSE {} ]
      [] fn = "from_string" ->
           [ trap |-> "none", rets |-> { Code(from_string(arg.str)) } ]
      [] fn = "Value" ->
           [ trap |-> "none", rets |-> { Native("float", Value(arg.num)) } ]
      [] fn = "convert" ->
           LET conv == operator_ArithmeticType(arg.num, operand.T)
           IN  [ trap |-> conv.trap,
                 rets |-> { Native(operand.T, r) : r \in conv.values } ]
      [] fn \in Ops ->
           LET side == operand.wrapper
               L == IF side = "lhs" THEN "Float32" ELSE operand.T
               R == IF side = "lhs" THEN operand.T ELSE "Float32"
               a == IF side = "lhs" THEN Value(arg.num) ELSE y
               b == IF side = "lhs" THEN y ELSE Value(arg.num)
               o == Overloads[CHOOSE i \in Selected(fn, L, R) : TRUE]
               body == Body(predefined, o, a, L, b, R)
               T == ReturnType(o, L, R)
           IN  [ trap |-> body.trap,
                 rets |-> { IF T = "Float32" THEN Wrapper(r) ELSE Native(T, r) :
                              r \in body.values } ]

InitThreads ==
    /\ predefined \in BuildConfigs
    /\ \/ /\ input \in { Code(c) : c \in CodeInputs }
          /\ operand = NoOperand
       \/ /\ input \in { Str(s) : s \in SharedStrings }
          /\ operand = NoOperand
       \/ /\ input \in { Wrapper(Float32(Fin(n))) : n \in SharedNumbers }
          /\ \E T \in SharedTypes, side \in { "lhs", "rhs" } :
               operand \in { Operand(T, Fin(n), side) : n \in SharedNumbers }
    /\ cur = input
    /\ calls = << >>
    /\ call = NoCall
    /\ trap = "none"
    /\ threads \in [ 1..NumThreads -> { Thread(fn) : fn \in ThreadCalls(input) } ]
    /\ \A t \in 1..NumThreads :
          threads[t].fn \in Ops =>
              IF operand.wrapper = "lhs"
              THEN InModel(threads[t].fn, input.num, operand.y)
              ELSE InModel(threads[t].fn, operand.y, input.num)

\* Mutant: reading the object moves its value out and leaves it empty.
ReadObject_moving(t) ==
    /\ trap = "none"
    /\ threads[t].pc = "call"
    /\ threads' = [threads EXCEPT ![t].arg = cur,
                                  ![t].pc = IF threads[t].fn \in Ops THEN "operand"
                                            ELSE "read"]
    /\ cur' = [NoValue EXCEPT !.type = cur.type]
    /\ UNCHANGED <<predefined, input, operand, calls, call, trap>>

\* The thread t reads the object through the const reference (code, str,
\* lhs.Value() or rhs.Value()).
ReadObject(t) ==
    /\ trap = "none"
    /\ threads[t].pc = "call"
    /\ threads' = [threads EXCEPT ![t].arg = cur,
                                  ![t].pc = IF threads[t].fn \in Ops THEN "operand"
                                            ELSE "read"]
    /\ UNCHANGED <<predefined, input, operand, cur, calls, call, trap>>

\* The thread t reads the native operand of its binary operator.
ReadOperand(t) ==
    /\ trap = "none"
    /\ threads[t].pc = "operand"
    /\ threads' = [threads EXCEPT ![t].other = operand.y, ![t].pc = "read"]
    /\ UNCHANGED <<predefined, input, operand, cur, calls, call, trap>>

\* The thread t computes on its copies and returns, or ends the process in a
\* trap.
Return(t) ==
    /\ trap = "none"
    /\ threads[t].pc = "read"
    /\ LET r == CallResult(threads[t].fn, threads[t].arg, threads[t].other)
       IN  /\ trap' = r.trap
           /\ IF r.trap = "none"
              THEN \E v \in r.rets :
                     threads' = [threads EXCEPT ![t].ret = v, ![t].pc = "done"]
              ELSE threads' = [threads EXCEPT ![t].pc = "trap"]
    /\ UNCHANGED <<predefined, input, operand, cur, calls, call>>

NextThreads ==
    \/ \E t \in DOMAIN threads : ReadObject(t)
    \/ \E t \in DOMAIN threads : ReadOperand(t)
    \/ \E t \in DOMAIN threads : Return(t)

SpecThreads == InitThreads /\ [][NextThreads]_vars

-----------------------------------------------------------------------------
(* The StatusCode claims.                                                  *)

\* The 16 display strings of the string contract, in the order of the
\* enumeration.
DisplayStrings ==
    << "OK", "CANCELLED", "INVALID ARGUMENT", "NOT FOUND", "ALREADY EXISTS",
       "PERMISSION DENIED", "UNAUTHENTICATED", "OUT OF RANGE",
       "DEADLINE EXCEEDED", "RESOURCE EXHAUSTED", "FAILED PRECONDITION",
       "ABORT", "UNIMPLEMENTED", "INTERNAL", "UNAVAILABLE", "DATA LOSS" >>

DisplaySet == { DisplayStrings[i] : i \in 1..Len(DisplayStrings) }

\* The 16 enumerators, in the order of the enumeration.
EnumeratorOrder ==
    << "OK", "CANCELLED", "INVALID_ARGUMENT", "NOT_FOUND", "ALREADY_EXISTS",
       "PERMISSION_DENIED", "UNAUTHENTICATED", "OUT_OF_RANGE",
       "DEADLINE_EXCEEDED", "RESOURCE_EXHAUSTED", "FAILED_PRECONDITION",
       "ABORT", "UNIMPLEMENTED", "INTERNAL", "UNAVAILABLE", "DATA_LOSS" >>

FromCode == input.type = "StatusCode"
FromStr  == input.type = "string"

\* C1: round trip.  A caller that starts from one of the 16 defined codes v
\* gets a string from to_string(v) (no trap), and from_string of that string
\* is v again.
C1_RoundTrip ==
    (FromCode /\ input.code \in DefinedCodes) =>
        /\ calls = << "to_string" >> => (trap = "none" /\ cur.type = "string")
        /\ calls = << "to_string", "from_string" >> => (trap = "none" /\ cur = input)

C1_Witness ==
    /\ FromCode /\ input.code = StatusCode.DATA_LOSS
    /\ calls = << "to_string", "from_string" >>
    /\ cur.code = StatusCode.DATA_LOSS

\* C2: to_string of each defined code is its display string: the string listed
\* for it in the string contract, which is the enumerator's name with every
\* underscore replaced by a space.
C2_DisplayString ==
    (FromCode /\ calls = << "to_string" >>) =>
        \A i \in 1..Len(EnumeratorOrder) :
            input.code = StatusCode[EnumeratorOrder[i]] =>
                /\ trap = "none"
                /\ cur.str = DisplayStrings[i]
                /\ cur.str = Replace(EnumeratorOrder[i], "_", " ")

C2_Witness ==
    /\ FromCode /\ input.code = StatusCode.INVALID_ARGUMENT
    /\ calls = << "to_string" >>
    /\ cur.str = "INVALID ARGUMENT"

\* C3: to_string is injective on the defined codes: the string a caller got
\* for the defined code a is the string of no other defined code b.
C3_Injective ==
    (FromCode /\ input.code \in DefinedCodes /\ calls = << "to_string" >>) =>
        \A b \in DefinedCodes \ { input.code } :
            /\ to_string(b).trap = "none"
            /\ to_string(b).value # cur.str

C3_Witness ==
    /\ FromCode /\ input.code = StatusCode.ABORT
    /\ calls = << "to_string" >>
    /\ cur.str = "ABORT"

\* C4: the mapping is a bijection between the 16 codes and the 16 display
\* strings: from_string of a display string s is a defined code, to_string of
\* that code is s again, and (the other direction) from_string of to_string(v)
\* is v for a defined code v.
C4_Bijection ==
    /\ (FromStr /\ input.str \in DisplaySet) =>
          /\ calls = << "from_string" >> => cur.code \in DefinedCodes
          /\ calls = << "from_string", "to_string" >> => (trap = "none" /\ cur = input)
    /\ (FromCode /\ input.code \in DefinedCodes
          /\ calls = << "to_string", "from_string" >>) => cur.code = input.code
    /\ Cardinality(DefinedCodes) = Cardinality(DisplaySet)

C4_Witness ==
    /\ FromStr /\ input.str = "UNAVAILABLE"
    /\ calls = << "from_string", "to_string" >>
    /\ cur.str = "UNAVAILABLE"

\* C5: from_string ignores case: a string whose upper-case form is the display
\* string of the defined code v yields v, and from_string of the upper-cased
\* string is from_string of the string itself.
C5_CaseInsensitive ==
    FromStr =>
        /\ calls = << "from_string" >> =>
              \A v \in DefinedCodes :
                  to_uppercase(input.str) = to_string(v).value => cur.code = v
        /\ calls = << "to_uppercase", "from_string" >> =>
              cur.code = from_string(input.str)

C5_Witness ==
    /\ FromStr /\ input.str = "not found"
    /\ calls = << "from_string" >>
    /\ cur.code = StatusCode.NOT_FOUND

\* C6: lenient fallback: from_string of a string whose upper-case form is none
\* of the 16 display strings returns StatusCode::OK, without a trap.
C6_LenientFallback ==
    (FromStr /\ calls = << "from_string" >> /\ to_uppercase(input.str) \notin DisplaySet) =>
        (cur = Code(StatusCode.OK) /\ trap = "none")

C6_Witness ==
    /\ FromStr /\ input.str = "NOT_FOUND"
    /\ calls = << "from_string" >>
    /\ cur.code = StatusCode.OK

\* C7: to_string of a value above 0x000F ends in the unreachable trap and hands
\* no string to the caller.
C7_UnreachableTrap ==
    (FromCode /\ input.code > 15 /\ calls # << >>) =>
        /\ trap = "unreachable"
        /\ calls = << "to_string" >>
        /\ cur = input

C7_Witness ==
    /\ FromCode /\ input.code = 16
    /\ calls = << "to_string" >>
    /\ trap = "unreachable"

\* C8: the enumerators have the ordinals 0x0000..0x000F in the listed order:
\* the i-th enumerator has the ordinal i - 1, there are no others, and a code
\* a caller obtains from a display string is the ordinal of its position.
C8_Ordinals ==
    /\ Enumerators = { EnumeratorOrder[i] : i \in 1..Len(EnumeratorOrder) }
    /\ \A i \in 1..Len(EnumeratorOrder) : StatusCode[EnumeratorOrder[i]] = i - 1
    /\ DefinedCodes = 0..15
    /\ (FromStr /\ calls = << "from_string" >>) =>
          /\ cur.code \in 0..15
          /\ \A i \in 1..Len(DisplayStrings) :
                input.str = DisplayStrings[i] => cur.code = i - 1
    /\ (FromCode /\ calls = << "to_string" >> /\ trap = "none") => input.code \in 0..15

C8_Witness ==
    /\ FromStr /\ input.str = "DATA LOSS"
    /\ calls = << "from_string" >>
    /\ cur.code = 15

-----------------------------------------------------------------------------
(* The Float32 claims.                                                     *)

\* The caller has applied a binary operator to its Float32 and an operand of
\* a native arithmetic type.
NativeCall == call.op \in Ops /\ operand.T \in ArithmeticTypes

\* The templates of the called operator with the wrapper on the called side
\* whose enable_if holds for the operand's type.
EnabledSameSide ==
    { i \in 1..Len(Overloads) :
        /\ Overloads[i].op = call.op
        /\ Overloads[i].wrapper = operand.wrapper
        /\ enable_if(Overloads[i], operand.T) }

\* C9: result type selection.  For each operator, each operand order and each
\* native operand type T, one template of that operator and order is enabled
\* and it is the one overload resolution selects; the result is a Float32 when
\* sizeof(T) <= sizeof(float) and a T when sizeof(T) > sizeof(float).
C9_ResultType ==
    NativeCall =>
        /\ trap # "ill-formed"
        /\ Cardinality(EnabledSameSide) = 1
        /\ call.selected = EnabledSameSide
        /\ call.rtype = IF sizeof[operand.T] <= sizeof["float"]
                        THEN "Float32" ELSE operand.T

C9_Witness ==
    /\ call.op = "*" /\ operand.T = "double" /\ operand.wrapper = "rhs"
    /\ call.rtype = "double"
    /\ Cardinality(call.selected) = 1

\* The integer n is exactly representable in a 32-bit float: below 2^24 in
\* magnitude, or a multiple of 2^k that is below 2^(24+k).
FitsFloat(n) ==
    \E k \in 0..7 : Abs(n) % Pow2(k) = 0 /\ Abs(n) \div Pow2(k) < 16777216

\* The caller has computed w + y or y + w for an operand y of a native type no
\* wider than float, and the call has returned.
NarrowPlus ==
    /\ NativeCall /\ call.op = "+" /\ trap = "none"
    /\ sizeof[operand.T] <= sizeof["float"]

\* C10 as stated: on the narrow path w + y is a Float32 whose value is x + y
\* whenever x, y are integers and x + y is exactly representable in a float.
C10_NarrowSumExact ==
    NarrowPlus =>
        /\ call.rtype = "Float32"
        /\ FitsFloat(input.num.n + operand.y.n) =>
              call.res = Fin(input.num.n + operand.y.n)

\* C10, amended: on the narrow path w + y is a Float32 whose value is x + y
\* whenever x, y are integers, y is exactly representable in a float and so is
\* x + y.
C10_NarrowSum ==
    NarrowPlus =>
        /\ call.rtype = "Float32"
        /\ (FitsFloat(operand.y.n) /\ FitsFloat(input.num.n + operand.y.n)) =>
              call.res = Fin(input.num.n + operand.y.n)

C10_Witness ==
    /\ NarrowPlus
    /\ input.num = Fin(3) /\ operand.T = "int32_t" /\ operand.y = Fin(4)
    /\ call.rtype = "Float32" /\ call.res = Fin(7)

\* The caller has computed w + y or y + w for an operand y of a native type
\* wider than float, and the call has returned.
WidePlus ==
    /\ NativeCall /\ call.op = "+" /\ trap = "none"
    /\ sizeof[operand.T] > sizeof["float"]

\* C11: on the widening path w + y is a value of the operand's type T that
\* equals x + y as computed in T, for every y the model draws, those above 2^24
\* included (T holds every such sum exactly).
C11_WideSumExact ==
    WidePlus =>
        /\ call.rtype = operand.T
        /\ call.res = Fin(input.num.n + operand.y.n)

\* The part of C11 that holds: the result has the type T, and it is x + y when
\* T is a floating-point type (the sum is computed in T) or when y and x + y are
\* exactly representable in a 32-bit float.
C11_WideSumInFloat ==
    WidePlus =>
        /\ call.rtype = operand.T
        /\ (\/ operand.T \in { "double", "long_double" }
            \/ FitsFloat(operand.y.n) /\ FitsFloat(input.num.n + operand.y.n)) =>
              call.res = Fin(input.num.n + operand.y.n)

\* Float32(3) + int64 4 is the int64 7.
C11_SmallSum ==
    /\ WidePlus
    /\ input.num = Fin(3) /\ operand.T = "int64_t" /\ operand.y = Fin(4)
    /\ call.rtype = "int64_t" /\ call.res = Fin(7)

\* The caller has applied a binary operator to its Float32 and another Float32.
WrapperCall == call.op \in Ops /\ operand.T = "Float32"

\* C12: wrapper-with-wrapper arithmetic is defined: for a + b with both
\* operands Float32, overload resolution selects exactly one template and the
\* result is a Float32 holding a.Value() + b.Value() (for a sum a float holds
\* exactly).
C12_WrapperSum ==
    (WrapperCall /\ call.op = "+") =>
        /\ trap = "none"
        /\ Cardinality(call.selected) = 1
        /\ call.rtype = "Float32"
        /\ FitsFloat(input.num.n + operand.y.n) =>
              call.res = Fin(input.num.n + operand.y.n)

\* What the code does instead: for two Float32 operands the narrow template of
\* either side is viable with two exact matches, none is better, and the call
\* is ill-formed, for every operator.
C12_Ambiguous ==
    WrapperCall =>
        /\ trap = "ill-formed"
        /\ Cardinality(call.viable) = 2
        /\ call.selected = {}

\* The caller has divided: w / y (wrapper on the lhs) or y / w, y native.
Division == NativeCall /\ call.op = "/"

Numerator   == IF operand.wrapper = "lhs" THEN input.num ELSE operand.y
Denominator == IF operand.wrapper = "lhs" THEN operand.y ELSE input.num

\* The build the MYSTIC_CHECK is active in.
CheckedBuild == MYSTIC_ARCH_BUILD_TYPE(predefined) = "DEBUG"

\* C13: guarded division.  In a build where the check is active, a division by
\* a denominator below FLT_EPSILON in magnitude (0 in particular) ends in the
\* trap of the check, whichever of the four templates is selected, and returns
\* no infinity or NaN.
C13_GuardedDivision ==
    (Division /\ CheckedBuild /\ BelowEpsilon(Denominator)) =>
        /\ trap = "check"
        /\ call.res.cls = "finite"

\* What the code does instead: the condition handed to MYSTIC_CHECK is the one
\* that must not hold, so in such a build the division traps exactly when the
\* denominator is not below FLT_EPSILON, and a zero denominator passes.
C13_InvertedCheck ==
    (Division /\ CheckedBuild) =>
        (trap = "check") = ~BelowEpsilon(Denominator)

\* The quotient of the division the caller made, for operands a float holds
\* exactly.
ExactQuotient == Quotient(Numerator.n, Denominator.n)

\* A call of +, - or * has returned; a division by a denominator of magnitude
\* at least FLT_EPSILON has returned the quotient.
OnlyFailurePath ==
    /\ call.op \in { "+", "-", "*" } => trap = "none"
    /\ (call.op = "/" /\ ~BelowEpsilon(Denominator)) =>
          /\ trap = "none"
          /\ (FitsFloat(Numerator.n) /\ FitsFloat(Denominator.n)) =>
                call.res = ExactQuotient

\* C14: division by near-zero is the only failure path: in every build type a
\* division whose denominator has magnitude >= FLT_EPSILON does not trap and
\* returns the quotient, and +, - and * do not trap for any operands.
C14_OnlyFailurePath == NativeCall => OnlyFailurePath

\* The same holds in the builds without the check.
C14_UncheckedBuilds == (NativeCall /\ ~CheckedBuild) => OnlyFailurePath

\* And in a build with the check, +, - and * do not trap.
C14_OthersNeverTrap ==
    (NativeCall /\ call.op \in { "+", "-", "*" }) => trap = "none"

\* The result type of the call can hold an infinity or a NaN.
FloatingResult == call.rtype \in { "Float32", "float", "double", "long_double" }

C15_DebugTraps ==
    /\ Division /\ predefined = { "DEBUG" }
    /\ trap = "check"

\* The caller started from a native value and has constructed a Float32 from it.
Constructed == input.type \in ArithmeticTypes /\ cur.type = "Float32"

\* The caller has converted its Float32 to a native type.
Converted == call.op = "convert"

\* C16: construction and conversion never fail.  A Float32 can be constructed
\* from every arithmetic value, and the construction does not trap and stores
\* the float the cast gives (the value itself when a float holds it); a Float32
\* can be converted to every arithmetic type, and the conversion does not trap
\* and returns a value of that type (the stored value when the type holds it,
\* whatever the cast leaves otherwise): no range is validated.
C16_NeverFails ==
    /\ cur.type \in ArithmeticTypes => ENABLED Construct
    /\ Constructed =>
          /\ trap = "none"
          /\ cur.num.cls = "finite" => FitsFloat(cur.num.n)
          /\ (input.num.cls = "finite" /\ FitsFloat(input.num.n)) => cur.num = input.num
          /\ input.num.cls # "finite" => cur.num = input.num
    /\ FloatRunning => \A T \in ArithmeticTypes : ENABLED Convert(T)
    /\ Converted =>
          /\ trap = "none"
          /\ call.rtype \in { "float", "double", "long_double" } => call.res = cur.num
          /\ call.rtype = "bool" => call.res \in { Fin(0), Fin(1) }
          /\ call.rtype \in IntegerTypes => call.res.cls = "finite"
          /\ (call.rtype \in IntegerTypes \ { "bool" } /\ cur.num.cls = "finite"
                /\ InRange(cur.num.n, call.rtype)) => call.res = cur.num

\* An int32 above 2^24 is stored rounded, and the conversion of the result to
\* an int16, which cannot hold it, returns all the same.
C16_Witness ==
    /\ Constructed /\ Converted
    /\ input = Native("int32_t", Fin(FloatLimit + 1)) /\ cur.num = Fin(FloatLimit)
    /\ call.rtype = "int16_t" /\ trap = "none"

\* An infinity is constructed and converted to an integer type as well.
C16_InfinityToInteger ==
    /\ Constructed /\ Converted
    /\ input = Native("double", Inf(1)) /\ cur.num = Inf(1)
    /\ call.rtype = "int64_t" /\ trap = "none"

\* C17: a Float32 is immutable after construction.  Every step a caller takes
\* with its Float32 w (a call of Value(), a conversion, a binary operator with
\* w on either side) leaves w with the value it was constructed with and leaves
\* the other operand as it was; what the call yields is a new value, handed to
\* the caller.
C17_Immutable ==
    [][ cur.type = "Float32" =>
          /\ cur'.type = "Float32"
          /\ Value(cur'.num) = Value(cur.num)
          /\ operand' = operand
          /\ call'.op # "none" ]_vars

\* Float32(3) * double 4 has yielded 12, and the Float32 still holds 3.
C17_Witness ==
    /\ call.op = "*" /\ operand.T = "double" /\ operand.y = Fin(4)
    /\ call.res = Fin(12)
    /\ input = Wrapper(Fin(3)) /\ Value(cur.num) = Fin(3)

\* What the call a op b, a : L and b : R, gives in the caller's build: the
\* type, the trap and the possible values of the selected template.
Outcome(op, a, L, b, R) ==
    LET o == Overloads[CHOOSE i \in Selected(op, L, R) : TRUE]
        body == Body(predefined, o, a, L, b, R)
    IN  [ rtype |-> ReturnType(o, L, R), trap |-> body.trap, values |-> body.values ]

\* The result type the size of the operand's type selects.
SizeSelectedType ==
    IF sizeof[operand.T] <= sizeof["float"] THEN "Float32" ELSE operand.T

\* The arithmetic of the call is exact for the integer n: the operand's type is
\* double or long double, or a float holds n.
ExactIn(n) == operand.T \in { "double", "long_double" } \/ FitsFloat(n)

\* The caller's call had the wrapper on the right: y op w.
WrapperRight == NativeCall /\ operand.wrapper = "rhs"

\* C18: the wrapper-right forms work as the wrapper-left forms.  For + and *,
\* y op w and w op y have the same result type and the same value.  For - and /
\* the order of the operands is kept: y - w is y minus w.Value() and y / w is y
\* divided by w.Value() (where the call returns and the arithmetic is exact),
\* and the result type is selected by the size of y's type as on the left.
C18_WrapperRight ==
    /\ (NativeCall /\ call.op \in { "+", "*" }) =>
          LET left  == Outcome(call.op, input.num, "Float32", operand.y, operand.T)
              right == Outcome(call.op, operand.y, operand.T, input.num, "Float32")
          IN  /\ left = right
              /\ call.rtype = left.rtype
              /\ trap = "none" /\ call.res \in left.values
    /\ WrapperRight => call.rtype = SizeSelectedType
    /\ (WrapperRight /\ call.op = "-" /\ trap = "none"
          /\ ExactIn(operand.y.n) /\ ExactIn(operand.y.n - input.num.n)) =>
          call.res = Fin(operand.y.n - input.num.n)
    /\ (WrapperRight /\ call.op = "/" /\ trap = "none" /\ ExactIn(operand.y.n)
          /\ (input.num.n # 0 \/ FloatingResult)) =>
          call.res = Quotient(operand.y.n, input.num.n)

\* 4 - Float32(3) is 1, not -1.
C18_Witness ==
    /\ WrapperRight /\ call.op = "-" /\ trap = "none"
    /\ operand.T = "int32_t" /\ operand.y = Fin(4) /\ input.num = Fin(3)
    /\ call.rtype = "Float32" /\ call.res = Fin(1)

\* 4 / Float32(2) is 2 in a build without the check.
C18_RightQuotient ==
    /\ WrapperRight /\ call.op = "/" /\ trap = "none"
    /\ operand.T = "int64_t" /\ operand.y = Fin(4) /\ input.num = Fin(2)
    /\ call.rtype = "int64_t" /\ call.res = Fin(2)

\* The operand the selected template hands to its check is the right-hand one:
\* the denominator.
ChecksDenominator == \A i \in call.selected : Overloads[i].check = "rhs"

\* A zero numerator over a denominator of magnitude at least FLT_EPSILON has
\* given 0 without a trap.
ZeroNumeratorGivesZero ==
    (Numerator = Fin(0) /\ ~BelowEpsilon(Denominator)) =>
        (trap = "none" /\ call.res = Fin(0))

\* C20: in each of the four division templates the operand compared with
\* epsilon is the denominator (rhs with the wrapper on the left, rhs.Value()
\* with it on the right), never the numerator; a zero numerator over a
\* denominator that is not near zero does not trap and yields 0.
C20_DenominatorChecked ==
    Division => (ChecksDenominator /\ ZeroNumeratorGivesZero)

\* The parts of C20 that hold: the checked operand is the denominator in every
\* build, whether a division traps depends on the denominator alone, and in a
\* build without the check a zero numerator yields 0.
C20_DenominatorAlone ==
    Division =>
        /\ ChecksDenominator
        /\ (trap = "check") = (CheckedBuild /\ ~BelowEpsilon(Denominator))
        /\ ~CheckedBuild => ZeroNumeratorGivesZero

-----------------------------------------------------------------------------
(* The claim about concurrent callers, under SpecThreads.                  *)

\* What the call of fn gives when it runs alone on the object and the operand
\* the threads were handed.
Alone(fn) == CallResult(fn, input, operand.y)

-----------------------------------------------------------------------------
(* The claims about byte (byte_internal.hpp).                               *)

\* The first call of the caller was fn, and nothing was called after it.
Called(fn) == Len(calls) = 1 /\ calls[1] = fn

InByteRange(v) == v >= 0 /\ v <= 255

\* C21: ConvertToByte precondition.  Called with an integer in 0..255,
\* ConvertToByte returns the byte holding that value and does not trap; called
\* with an integer outside 0..255, the debug check fails (a trap in a debug
\* build) instead of a silently truncated byte being returned.
C21_ConvertToByteChecked ==
    Called("ConvertToByte") =>
        IF InByteRange(input.code)
        THEN trap = "none" /\ cur = Byte(input.code)
        ELSE CheckedBuild => trap = "dcheck"

\* What holds instead: a program that calls ConvertToByte is ill-formed, for
\* every argument and in every build.
C21_IllFormed ==
    Called("ConvertToByte") => (trap = "ill-formed" /\ cur = input)

\* The body of ConvertToByte by itself does what the claim says: the check
\* passes exactly on 0..255, where the cast keeps the value; outside it fails
\* in a debug build, and elsewhere the cast truncates.
C21_BodyChecked ==
    \A symbols \in BuildConfigs : \A v \in IntegerInputs :
        LET r == ConvertToByte(symbols, v)
        IN  /\ InByteRange(v) => (r.trap = "none" /\ r.value = v)
            /\ ~InByteRange(v) =>
                 /\ r.trap = (IF MYSTIC_ARCH_BUILD_TYPE(symbols) = "DEBUG"
                              THEN "dcheck" ELSE "none")
                 /\ r.value \in ByteValues
                 /\ (r.value - v) % Pow2(CHAR_BIT) = 0

\* The caller has applied op to its byte, and nothing was called after it.
Applies(op) == Called("operator" \o op)

\* Bitwise AND, OR and XOR of two naturals, digit by digit.
BitOf(op, x, y) ==
    CASE op = "&" -> x * y
      [] op = "|" -> x + y - x * y
      [] op = "^" -> (x + y) % 2

RECURSIVE Bitwise(_, _, _)
Bitwise(op, a, b) ==
    IF a = 0 /\ b = 0 THEN 0
    ELSE BitOf(op, a % 2, b % 2) + 2 * Bitwise(op, a \div 2, b \div 2)

\* C22: bitwise operators on byte.  a & b, a | b and a ^ b hold the bitwise
\* AND, OR and XOR of the values of a and b, and ~a holds 255 - a (the upper
\* bits of the intermediate unsigned int are discarded); every result is a
\* byte value in 0..255.
C22_BitwiseOperators ==
    \A op \in { "&", "|", "^", "~" } :
        Applies(op) =>
            /\ trap = "none"
            /\ call.res \in { Fin(v) : v \in ByteValues }
            /\ call.res = Fin(IF op = "~" THEN 255 - input.code
                              ELSE Bitwise(op, input.code, operand.y.n))

\* What holds instead: a program that applies one of the four operators is
\* ill-formed, and no byte results.
C22_IllFormed ==
    \A op \in { "&", "|", "^", "~" } :
        Applies(op) => (trap = "ill-formed" /\ call.res = Fin(0) /\ cur = input)

\* A caller with a byte, before its call.  Formulas about every right operand
\* are evaluated once for each byte and build, at the caller whose own operand
\* is 0.
ByteCaller == input.type = "byte" /\ calls = << >> /\ operand.y.n = 0

\* The return expressions of the four operators by themselves hold the values
\* the claim gives, for the caller's byte and every other byte.
C22_Bodies ==
    ByteCaller =>
        LET a == input.code
        IN  /\ OperatorBody("~", a, 0) = { 255 - a }
            /\ \A b \in ByteValues : \A op \in { "&", "|", "^" } :
                  /\ OperatorBody(op, a, b) = { Bitwise(op, a, b) }
                  /\ Bitwise(op, a, b) \in ByteValues

\* The caller has shifted its byte by the amount of the operand.
ShiftBy == operand.y.n

\* C23: shift operators on byte.  For a shift amount s in 0..7, b << s holds
\* (b * 2^s) mod 256 and b >> s holds floor(b / 2^s); for s >= 8 and below the
\* width of unsigned int, b << s holds 0.
C23_Shifts ==
    /\ (Applies("<<") /\ ShiftBy \in 0..(UINT_BIT - 1)) =>
          /\ trap = "none"
          /\ call.res = Fin(IF ShiftBy < CHAR_BIT
                            THEN (input.code * Pow2(ShiftBy)) % 256 ELSE 0)
    /\ (Applies(">>") /\ ShiftBy \in 0..(CHAR_BIT - 1)) =>
          /\ trap = "none"
          /\ call.res = Fin(input.code \div Pow2(ShiftBy))

\* What holds instead: a program that shifts a byte is ill-formed, for every
\* amount.
C23_IllFormed ==
    (Applies("<<") \/ Applies(">>")) =>
        (trap = "ill-formed" /\ call.res = Fin(0) /\ cur = input)

\* The return expressions of the two operators by themselves hold the values
\* the claim gives, for every byte and every amount below the width of
\* unsigned int; b >> s is 0 from 8 on.
C23_Bodies ==
    \A b \in ByteValues : \A s \in 0..(UINT_BIT - 1) :
        /\ OperatorBody("<<", b, s) =
              { IF s < CHAR_BIT THEN (b * Pow2(s)) % 256 ELSE 0 }
        /\ OperatorBody(">>", b, s) =
              { IF s < CHAR_BIT THEN b \div Pow2(s) ELSE 0 }

\* A shift by the width of unsigned int is undefined: the byte itself and 0
\* are both results a build can produce.
C23_ShiftByWidth ==
    \A b \in ByteValues :
        /\ OperatorBody("<<", b, UINT_BIT) = { b, 0 }
        /\ OperatorBody(">>", b, UINT_BIT) = { b, 0 }

CompoundOperators == { "&=", "|=", "^=", "<<=", ">>=" }

\* C24: compound assignment frame.  Each of &=, |=, ^=, <<= and >>= leaves lhs
\* holding the value of the corresponding binary operator applied to the old
\* lhs and rhs, returns a reference to lhs, and leaves rhs unchanged; after any
\* sequence of compound assignments the value stays in 0..255.
C24_CompoundAssignment ==
    \A op \in CompoundOperators :
        Applies(op) =>
            /\ trap = "none"
            /\ cur.type = "byte"
            /\ cur.code \in OperatorBody(Applied(op), input.code, operand.y.n)
            /\ cur.code \in ByteValues
            /\ call.rtype = "byte&"
            /\ call.res = Fin(cur.code)

\* What holds instead: a program with a compound assignment to a byte is
\* ill-formed, and nothing is assigned.
C24_IllFormed ==
    \A op \in CompoundOperators :
        Applies(op) => (trap = "ill-formed" /\ cur = input /\ call.res = Fin(0))

\* No step of a caller writes the right operand.
C24_RhsUnchanged == [][operand' = operand]_vars

\* The values the five bodies assign are byte values, whatever the operands:
\* a sequence of compound assignments cannot leave 0..255.
C24_Closed ==
    ByteCaller =>
        LET a == input.code
        IN  /\ \A b \in ByteValues : \A op \in { "&", "|", "^" } :
                  OperatorBody(op, a, b) \subseteq ByteValues
            /\ \A s \in 0..UINT_BIT : \A op \in { "<<", ">>" } :
                  OperatorBody(op, a, s) \subseteq ByteValues

\* The caller has started with the call of fn.
StartedWith(fn) == calls # << >> /\ calls[1] = fn

\* C29: byte and integer round trip.  For every integer v in 0..255,
\* ConvertToInteger(ConvertToByte(v)) is v; for every byte b,
\* ConvertToByte(ConvertToInteger(b)) is b; and no check fails on the way.
C29_RoundTrip ==
    /\ (StartedWith("ConvertToByte") /\ InByteRange(input.code)) =>
          /\ trap = "none"
          /\ calls = << "ConvertToByte", "ConvertToInteger" >> => cur = input
    /\ StartedWith("ConvertToInteger") =>
          /\ trap = "none"
          /\ calls = << "ConvertToInteger", "ConvertToByte" >> => cur = input

\* What holds instead: the first conversion of either round trip is ill-formed
\* already, and the second is never reached.
C29_IllFormed ==
    (StartedWith("ConvertToByte") \/ StartedWith("ConvertToInteger")) =>
        (trap = "ill-formed" /\ Len(calls) = 1 /\ cur = input)

\* The two bodies by themselves are inverse to each other on 0..255, and the
\* check of the range passes in every build.
C29_Bodies ==
    \A v \in ByteValues : \A symbols \in BuildConfigs :
        LET b == ConvertToByte(symbols, v)
        IN  /\ b.trap = "none"
            /\ static_cast_byte(ConvertToInteger(b.value)) = v
            /\ ConvertToByte(symbols, static_cast_byte(ConvertToInteger(v))) =
                  [ trap |-> "none", value |-> v ]

-----------------------------------------------------------------------------
(* The claims about the detection headers.                                  *)

\* The build type the claim assigns to the predefined symbols, as its name.
ClaimedBuildType ==
    IF "DEBUG" \in predefined \/ "_DEBUG" \in predefined THEN "Debug"
    ELSE IF { "NDEBUG", "_RELWITHDEBINFO" } \subseteq predefined
         THEN "ReleaseWithDebInfo"
    ELSE "Release"

\* C25: build type detection.  The detection classifies every combination of
\* the predefined symbols: Debug when DEBUG or _DEBUG is defined (NDEBUG defined
\* or not), else ReleaseWithDebInfo when NDEBUG and _RELWITHDEBINFO are both
\* defined, else Release; and get_build_type_name() returns the name of the
\* build type selected.
C25_BuildType ==
    Called("get_build_type_name") =>
        /\ trap = "none"
        /\ cur = Name(ClaimedBuildType)

\* What holds instead: the namespace that encloses get_build_type_name is
\* declared with two tokens for its name, so a translation unit with the header
\* is ill-formed and no name is returned.
C25_IllFormed ==
    Called("get_build_type_name") => (trap = "ill-formed" /\ cur = input)

\* The preprocessor part is as the claim says: for every combination of the
\* four symbols the chain selects the build type the claim gives, and the name
\* is the one of that build type.
C25_Classification ==
    Called("get_build_type_name") =>
        /\ MYSTIC_ARCH_BUILD_TYPE_NAME(predefined) = ClaimedBuildType
        /\ call.res = Fin(CASE ClaimedBuildType = "Debug" -> 0
                            [] ClaimedBuildType = "ReleaseWithDebInfo" -> 1
                            [] ClaimedBuildType = "Release" -> 2)

\* The names of the SIMD and GPU tags.
SimdNames ==
    [ tag \in 0..5 |->
        CASE tag = MYSTIC_ARCH_SIMD_AVX2 -> "AVX2"
          [] tag = MYSTIC_ARCH_SIMD_AVX512 -> "AVX512"
          [] tag = MYSTIC_ARCH_SIMD_NEON -> "NEON"
          [] tag = MYSTIC_ARCH_SIMD_SVE -> "SVE"
          [] tag = MYSTIC_ARCH_SIMD_SVE2 -> "SVE2"
          [] tag = MYSTIC_ARCH_SIMD_UNKNOWN -> "UNKNOWN" ]

GpuNames ==
    [ tag \in 0..3 |->
        CASE tag = MYSTIC_ARCH_GPU_NVIDIA -> "NVIDIA"
          [] tag = MYSTIC_ARCH_GPU_AMD -> "AMD"
          [] tag = MYSTIC_ARCH_GPU_INTEL -> "Intel"
          [] tag = MYSTIC_ARCH_GPU_UNKNOWN -> "UNKNOWN" ]

\* The translation unit was stopped by an #error.
Stopped == trap = "#error"

\* C26: detection guardrail.  The compilation is stopped with an error exactly
\* when the feature is requested and the target detected is unknown:
\* MYSTIC_FEATURE_USE_SIMD defined and the SIMD tag UNKNOWN, or
\* MYSTIC_FEATURE_USE_GPU defined and the GPU tag UNKNOWN.  In every other
\* combination of the predefined symbols the detection completes with one tag
\* and the name of that tag.
C26_Guardrail ==
    /\ Called("get_simd_name") =>
          /\ Stopped <=> /\ "MYSTIC_FEATURE_USE_SIMD" \in predefined
                         /\ call.res = Fin(MYSTIC_ARCH_SIMD_UNKNOWN)
          /\ ~Stopped => /\ trap = "none"
                         /\ call.res.n \in DOMAIN SimdNames
                         /\ cur = Name(SimdNames[call.res.n])
    /\ Called("get_gpu_name") =>
          /\ Stopped <=> /\ "MYSTIC_FEATURE_USE_GPU" \in predefined
                         /\ call.res = Fin(MYSTIC_ARCH_GPU_UNKNOWN)
          /\ ~Stopped => /\ trap = "none"
                         /\ call.res.n \in DOMAIN GpuNames
                         /\ cur = Name(GpuNames[call.res.n])

\* A translation unit that requests both features on a target with an AMD GPU
\* and no SIMD symbol is stopped in the SIMD header (and passes the GPU
\* header).
C26_Witness ==
    /\ Called("get_simd_name")
    /\ Stopped
    /\ predefined = { "MYSTIC_FEATURE_USE_SIMD", "MYSTIC_FEATURE_USE_GPU", "__HCC__" }

\* The tag is the one of the first symbol of the chain that is defined.
C26_TagOfSymbols ==
    /\ Called("get_simd_name") =>
          /\ call.res = Fin(MYSTIC_ARCH_SIMD_UNKNOWN) <=>
                /\ predefined \cap { "__AVX512__", "__AVX2__", "__ARM_FEATURE_SVE",
                                    "__ARM_NEON" } = {}
                /\ ~({ "__ARM_FEATURE_SVE2", "__ARM_FEATURE_SME" } \subseteq predefined)
          /\ "__AVX512__" \in predefined => call.res = Fin(MYSTIC_ARCH_SIMD_AVX512)
    /\ Called("get_gpu_name") =>
          call.res = Fin(MYSTIC_ARCH_GPU_UNKNOWN) <=>
              predefined \cap (GpuSymbols \ { "MYSTIC_FEATURE_USE_GPU" }) = {}

-----------------------------------------------------------------------------
(* The claims about from_string as a total function.                        *)

\* C27: from_string is total and closed.  For every string, the empty one and
\* strings of any characters included, from_string returns one of the 16
\* defined codes and does not trap; so to_string of its result never reaches
\* the unreachable trap, and from_string(to_string(from_string(s))) is
\* from_string(s).
C27_TotalClosed ==
    FromStr =>
        /\ calls = << "from_string" >> =>
              (trap = "none" /\ cur.type = "StatusCode" /\ cur.code \in DefinedCodes)
        /\ calls = << "from_string", "to_string" >> =>
              (trap = "none" /\ cur.type = "string" /\ cur.str \in DisplaySet)
        /\ calls = << "from_string", "to_string", "from_string" >> =>
              /\ trap = "none"
              /\ cur.code \in DefinedCodes
              /\ cur.code = from_string(input.str)
              /\ to_uppercase(input.str) \in DisplaySet =>
                    DisplayStrings[cur.code + 1] = to_uppercase(input.str)
              /\ to_uppercase(input.str) \notin DisplaySet => cur.code = StatusCode.OK

C27_Witness ==
    /\ FromStr /\ input.str = ""
    /\ calls = << "from_string", "to_string", "from_string" >>
    /\ cur = Code(StatusCode.OK)
    /\ trap = "none"

\* C28: a result of from_string other than OK is an exact match: if
\* from_string(s) is c and c is not OK, the upper-case form of s is
\* to_string(c).  OK is the one result that does not tell a match from no
\* match: from_string(s) is OK exactly when the upper-case form of s is "OK" or
\* is no display string.
C28_ExactMatch ==
    (FromStr /\ calls = << "from_string" >>) =>
        /\ cur.code # StatusCode.OK =>
              /\ to_string(cur.code) = [ trap |-> "none", value |-> to_uppercase(input.str) ]
              /\ cur.code \in 1..15
              /\ DisplayStrings[cur.code + 1] = to_uppercase(input.str)
        /\ cur.code = StatusCode.OK <=>
              \/ to_uppercase(input.str) = "OK"
              \/ to_uppercase(input.str) \notin DisplaySet

C28_Witness ==
    /\ FromStr /\ input.str = "dATA LOSS"
    /\ calls = << "from_string" >>
    /\ cur = Code(StatusCode.DATA_LOSS)

====
